---------------------------- MODULE Spec2Model ----------------------------
(***************************************************************************)
(* QWERTY Drum Script engine (src/play/engine.ts): QDSParser.parse and     *)
(* QDSCompiler.compile as a state machine, with the caller of              *)
(* src/play.ts (compileFrom) that builds a compiler and compiles.          *)
(*                                                                         *)
(* Representation.                                                         *)
(*  - A score text is a sequence of lines, each already split into the     *)
(*    fields the parser's line regexes capture; a track's pattern and a    *)
(*    pattern cell are sequences of one-character strings, so that the     *)
(*    tokenizer and the cell expander work character by character.         *)
(*  - An optional value (SEED, humanizeMs, mods.grid, mods.lenSteps,       *)
(*    order) is a sequence of length 0 (undefined) or 1.                   *)
(*  - A grid "n/d" is its denominator d, the only part the code reads.     *)
(*  - A 32-bit word is <<hi, lo>>, two 16-bit halves.                      *)
(*  - A time is <<w, f>> and stands for w/64 ms + f/2^31 ms, 0 <= f < 2^25.*)
(*    The scores drawn in Init have tempi, grids and swing amounts whose   *)
(*    step, micro-step and swing durations are whole multiples of 1/64 ms, *)
(*    and a humanize jitter is a whole multiple of 1/2^31 ms, so every     *)
(*    double the code computes for them is exact and equals the time here. *)
(*  - Scores whose times would not be finite (a tempo that is 0 or not a   *)
(*    number, a header grid with denominator 0, a track grid with          *)
(*    denominator 0 together with LEN) are not drawn in Init.              *)
(***************************************************************************)
EXTENDS Integers, Sequences, FiniteSets, TLC

VARIABLES
    text,        \* the score text handed to QDSParser.parse
    pc,          \* position of the caller / compile loop
    parsed,      \* Parsed: header, sections, order
    rng,         \* the compiler instance's generator: [seeded, a]
    mathRandom,  \* state of the platform's Math.random stream
    seqSections, \* compile: the section names walked
    secIdx,      \* compile: index into seqSections (1-based)
    lineIdx,     \* compile: index into sec.lines (1-based)
    locals,      \* compile: grid, stepsPerBar, stepMs, cells of the line
    bar,         \* compile: the bar loop counter
    tCursor,     \* compile: ms from start
    trackEvents, \* compile: the current section's events
    events,      \* compile: the output list
    barHits,     \* history: the hits placed by the last bar iteration
    results      \* history: what the compile calls so far returned

vars == <<text, pc, parsed, rng, mathRandom, seqSections, secIdx, lineIdx,
          locals, bar, tCursor, trackEvents, events, barHits, results>>

-----------------------------------------------------------------------------
(* Bounds of the model *)

\* compile calls made on one parsed score
MaxCalls == 2
\* where the model stops counting the iterations of a bar loop that has no end
BarCap == 6
\* largest roll count rN written in the cell patterns
MaxRoll == 9

-----------------------------------------------------------------------------
(* 32-bit words *)

RECURSIVE XorBits(_, _, _)
XorBits(x, y, n) ==
    IF n = 0 THEN 0
    ELSE ((x + y) % 2) + 2 * XorBits(x \div 2, y \div 2, n - 1)

RECURSIVE OrBits(_, _, _)
OrBits(x, y, n) ==
    IF n = 0 THEN 0
    ELSE (IF x % 2 = 1 \/ y % 2 = 1 THEN 1 ELSE 0)
         + 2 * OrBits(x \div 2, y \div 2, n - 1)

RECURSIVE Pow2(_)
Pow2(n) == IF n = 0 THEN 1 ELSE 2 * Pow2(n - 1)

Xor32(x, y) == <<XorBits(x[1], y[1], 16), XorBits(x[2], y[2], 16)>>

Or32(x, y) == <<OrBits(x[1], y[1], 16), OrBits(x[2], y[2], 16)>>

Add32(x, y) ==
    LET lo == x[2] + y[2]
        hi == x[1] + y[1] + (lo \div 65536)
    IN  <<hi % 65536, lo % 65536>>

\* x >>> k, 0 < k < 16
Shr32(x, k) ==
    <<x[1] \div Pow2(k),
      (x[2] \div Pow2(k)) + (x[1] % Pow2(k)) * Pow2(16 - k)>>

\* the 32-bit product of two 16-bit numbers
Mul16(x, y) ==
    LET p0 == x * (y % 256)
        p1 == x * (y \div 256)
        s  == (p1 % 256) * 256 + p0
    IN  <<(p1 \div 256) + (s \div 65536), s % 65536>>

\* Math.imul: the low 32 bits of the product
Imul(x, y) ==
    LET ll    == Mul16(x[2], y[2])
        cross == (Mul16(x[1], y[2])[2] + Mul16(x[2], y[1])[2]) % 65536
    IN  <<(ll[1] + cross) % 65536, ll[2]>>

\* seed >>> 0, for the seeds 0 <= seed < 2^16 of the scores drawn
ToUint32(seed) == <<0, seed>>

-----------------------------------------------------------------------------
(* Seeded generator: mulberry32 *)

\* a = (a + 0x6d2b79f5) | 0
mulberry32Advance(a) == Add32(a, <<27947, 31221>>)

\* let t = Math.imul(a ^ (a >>> 15), 1 | a)
mulberry32T1(a) == Imul(Xor32(a, Shr32(a, 15)), Or32(<<0, 1>>, a))

\* t = (t + Math.imul(t ^ (t >>> 7), 61 | t)) ^ t
mulberry32T2(t) ==
    Xor32(Add32(t, Imul(Xor32(t, Shr32(t, 7)), Or32(<<0, 61>>, t))), t)

\* (t ^ (t >>> 14)) >>> 0: the numerator v of the value v / 4294967296
mulberry32T3(t) == Xor32(t, Shr32(t, 14))

\* the value returned for the advanced state b, with that state
mulberry32Value(b) ==
    [a |-> b, v |-> mulberry32T3(mulberry32T2(mulberry32T1(b)))]

\* one call of the closure: the advanced state a and the value v drawn
mulberry32(a) == mulberry32Value(mulberry32Advance(a))

\* the generator g = [seeded, a, global] after the draw d
rngAfter(g, d) ==
    [g |-> IF g.seeded THEN [g EXCEPT !.a = d.a]
           ELSE [g EXCEPT !.global = d.a],
     v |-> d.v]

\* this.rng(): the instance's own stream when seeded, Math.random otherwise.
\* Math.random is the platform's generator, a stream whose state is unknown:
\* it is a stream of the same shape started from a state drawn in Init.
rngDraw(g) == rngAfter(g, mulberry32(IF g.seeded THEN g.a ELSE g.global))

-----------------------------------------------------------------------------
(* Times *)

\* 1/64 ms, the unit of the first component of a time
TicksPerMs == 64

\* 2^25: units of 1/2^31 ms in one tick
FracPerTick == 33554432

TNorm(w, f) == <<w + (f \div FracPerTick), f % FracPerTick>>

TAdd(a, b) == TNorm(a[1] + b[1], a[2] + b[2])

TSub(a, b) == TNorm(a[1] - b[1], a[2] - b[2])

TLess(a, b) == a[1] < b[1] \/ (a[1] = b[1] /\ a[2] < b[2])

TLeq(a, b) == ~TLess(b, a)

Ticks(w) == <<w, 0>>

-----------------------------------------------------------------------------
(* Grid / tempo model *)

\* parseInt(grid.split("/")[1]) / 4 * 4: dividing a double by 4 and
\* multiplying by 4 is exact, so the result is the denominator
stepsPerBar(grid) ==
    LET denom == grid
    IN  (denom * 4) \div 4

\* (60000 / bpm) / (denom / 4), in ticks; for the tempi and grids drawn the
\* quotient is a whole number of ticks
stepMs(grid, bpm) ==
    LET denom == grid
    IN  (60000 * 4 * TicksPerMs) \div (bpm * denom)

barMs(grid, bpm) == stepMs(grid, bpm) * stepsPerBar(grid)

swingOffsetMsOdd(stepIndex, stepMsV, swing) ==
    IF swing <= 50 THEN 0
    ELSE IF stepIndex % 2 = 0
         THEN ((swing - 50) * stepMsV) \div 100
         ELSE 0

\* amt * (stepMs * 0.5) with amt = (swing - 50) / 50
swingOffsetMs(stepIndex, stepMsV, swing) ==
    IF swing <= 50 THEN 0
    ELSE IF stepIndex % 2 = 1
         THEN ((swing - 50) * stepMsV) \div 100
         ELSE 0

-----------------------------------------------------------------------------
(* Characters and numbers *)

Digits == {"0", "1", "2", "3", "4", "5", "6", "7", "8", "9"}

DigitVal(c) ==
    CASE c = "0" -> 0 [] c = "1" -> 1 [] c = "2" -> 2 [] c = "3" -> 3
      [] c = "4" -> 4 [] c = "5" -> 5 [] c = "6" -> 6 [] c = "7" -> 7
      [] c = "8" -> 8 [] c = "9" -> 9

\* s.slice(i): the characters of s from the 1-based position i on
Slice(s, i) == SubSeq(s, i, Len(s))

\* the length of the run of digits at the head of s
RECURSIVE DigitRun(_)
DigitRun(s) ==
    IF s # <<>> /\ Head(s) \in Digits THEN 1 + DigitRun(Tail(s)) ELSE 0

\* parseInt(s, 10) of a string of digits
RECURSIVE parseIntAcc(_, _)
parseIntAcc(s, acc) ==
    IF s = <<>> THEN acc ELSE parseIntAcc(Tail(s), 10 * acc + DigitVal(Head(s)))

parseInt(s) == parseIntAcc(s, 0)

\* parseInt of [+-]?digits
parseSigned(s) ==
    IF Head(s) = "-" THEN 0 - parseInt(Tail(s))
    ELSE IF Head(s) = "+" THEN parseInt(Tail(s))
    ELSE parseInt(s)

RECURSIVE RemoveChars(_, _)
RemoveChars(s, cs) ==
    IF s = <<>> THEN <<>>
    ELSE IF Head(s) \in cs THEN RemoveChars(Tail(s), cs)
    ELSE <<Head(s)>> \o RemoveChars(Tail(s), cs)

\* the 1-based position of the first c in s, 0 when there is none
RECURSIVE IndexOfChar(_, _, _)
IndexOfChar(s, c, i) ==
    IF i > Len(s) THEN 0
    ELSE IF s[i] = c THEN i
    ELSE IndexOfChar(s, c, i + 1)

-----------------------------------------------------------------------------
(* Pattern tokenizer *)

\* an empty cell (null)
Null == <<>>

\* /^\^[-+]?\d+/ : the length matched at the head of s, 0 for no match
MatchShift(s) ==
    IF s = <<>> \/ Head(s) # "^" THEN 0
    ELSE LET r    == Tail(s)
             sign == IF r # <<>> /\ Head(r) \in {"-", "+"} THEN 1 ELSE 0
             n    == DigitRun(Slice(r, sign + 1))
         IN  IF n = 0 THEN 0 ELSE 1 + sign + n

\* /^\{[^}]*\}/
MatchBraces(s) ==
    IF s = <<>> \/ Head(s) # "{" THEN 0
    ELSE IndexOfChar(s, "}", 2)

\* /^\[p=\d+\]/
MatchProb(s) ==
    IF Len(s) < 5 \/ SubSeq(s, 1, 3) # <<"[", "p", "=">> THEN 0
    ELSE LET n == DigitRun(Slice(s, 4))
         IN  IF n = 0 \/ Len(s) < 4 + n \/ s[4 + n] # "]" THEN 0
             ELSE 4 + n

\* the first of the lengths a, b, c that is a match, else d
FirstMatch(a, b, c, d) ==
    IF a > 0 THEN a ELSE IF b > 0 THEN b ELSE IF c > 0 THEN c ELSE d

\* /^(\^[-+]?\d+|\{[^}]*\}|\[p=\d+\]|-)/
MatchMod(s) ==
    FirstMatch(MatchShift(s), MatchBraces(s), MatchProb(s),
               IF s # <<>> /\ Head(s) = "-" THEN 1 ELSE 0)

\* the inner while loop: the length of the modifier suffixes at the head of
\* s, n being the length of the first
RECURSIVE ModsRunFrom(_, _)
ModsRunFrom(s, n) ==
    IF n = 0 THEN 0
    ELSE n + ModsRunFrom(Slice(s, n + 1), MatchMod(Slice(s, n + 1)))

ModsRun(s) == ModsRunFrom(s, MatchMod(s))

\* the token of a hit at position i whose marker is followed by nd digits
hitToken(cleaned, i, nd) ==
    IF cleaned[i] # "r" THEN <<cleaned[i]>>
    ELSE IF nd > 0 THEN SubSeq(cleaned, i, i + nd)
    ELSE <<"x">>

RECURSIVE tokenizeFrom(_, _)

\* out.push(token + mods), the modifiers being the nm characters from j on
tokenizeHit(cleaned, token, j, nm) ==
    <<token \o SubSeq(cleaned, j, j + nm - 1)>>
        \o tokenizeFrom(cleaned, j + nm)

\* a hit marker at position i, followed by nd digits of a roll count
tokenizeMarker(cleaned, i, nd) ==
    tokenizeHit(cleaned, hitToken(cleaned, i, nd), i + 1 + nd,
                ModsRun(Slice(cleaned, i + 1 + nd)))

tokenizeFrom(cleaned, i) ==
    IF i > Len(cleaned) THEN <<>>
    ELSE IF cleaned[i] \in {".", "-"}
         THEN <<Null>> \o tokenizeFrom(cleaned, i + 1)
    ELSE IF cleaned[i] \in {"x", "X", "g", "r"}
         THEN tokenizeMarker(cleaned, i,
                  IF cleaned[i] = "r"
                  THEN DigitRun(Slice(cleaned, i + 1)) ELSE 0)
    ELSE tokenizeFrom(cleaned, i + 1)

tokenizePattern(p) == tokenizeFrom(RemoveChars(p, {"|"}), 1)

-----------------------------------------------------------------------------
(* Cell expander *)

DEFAULT_VEL(head) ==
    CASE head = "x" -> 96 [] head = "X" -> 115 [] head = "g" -> 60

Min(a, b) == IF a < b THEN a ELSE b

Max(a, b) == IF a > b THEN a ELSE b

\* /^(x|X|g|r\d+)/ : the length of the head of the cell, 0 for no match
MatchHead(cell) ==
    IF cell = <<>> THEN 0
    ELSE IF Head(cell) \in {"x", "X", "g"} THEN 1
    ELSE IF Head(cell) = "r" /\ DigitRun(Tail(cell)) > 0
         THEN 1 + DigitRun(Tail(cell))
    ELSE 0

\* mods.match(/\^([+-]?\d+)/): the first place in mods where it matches, as
\* the captured group; <<>> for no match
RECURSIVE FindShift(_)
FindShift(mods) ==
    IF mods = <<>> THEN <<>>
    ELSE IF MatchShift(mods) > 0 THEN SubSeq(mods, 2, MatchShift(mods))
    ELSE FindShift(Tail(mods))

\* /^\[p=(\d+)\]/i at the head of s: the length matched
MatchProbI(s) ==
    IF Len(s) < 5 \/ s[1] # "[" \/ s[2] \notin {"p", "P"} \/ s[3] # "="
    THEN 0
    ELSE LET n == DigitRun(Slice(s, 4))
         IN  IF n = 0 \/ Len(s) < 4 + n \/ s[4 + n] # "]" THEN 0
             ELSE 4 + n

\* mods.match(/\[p=(\d+)\]/i)
RECURSIVE FindProb(_)
FindProb(mods) ==
    IF mods = <<>> THEN <<>>
    ELSE IF MatchProbI(mods) > 0 THEN SubSeq(mods, 4, MatchProbI(mods) - 1)
    ELSE FindProb(Tail(mods))

\* /^vel\s*=\s*(\d+)/i at the head of s (a pattern holds no white space):
\* the digits captured, <<>> for no match
MatchVelKey(s) ==
    IF Len(s) >= 5 /\ s[1] \in {"v", "V"} /\ s[2] \in {"e", "E"}
       /\ s[3] \in {"l", "L"} /\ s[4] = "="
    THEN SubSeq(s, 5, 4 + DigitRun(Slice(s, 5)))
    ELSE <<>>

\* the greedy [^}]* before vel: the last place in seg where vel=digits
\* matches, looking from position i down
RECURSIVE LastVel(_, _)
LastVel(seg, i) ==
    IF i < 1 THEN <<>>
    ELSE IF MatchVelKey(Slice(seg, i)) # <<>> THEN MatchVelKey(Slice(seg, i))
    ELSE LastVel(seg, i - 1)

\* the match inside the block that opens at the head of mods and closes at
\* position close (0: no block opens here, or it never closes)
VelInBlock(mods, close) ==
    IF close > 0 THEN LastVel(SubSeq(mods, 2, close - 1), close - 2)
    ELSE <<>>

\* mods.match(/\{[^}]*vel\s*=\s*(\d+)[^}]*\}/i): the first place in mods
\* where it matches, as the captured group
RECURSIVE FindVel(_)
FindVel(mods) ==
    IF mods = <<>> THEN <<>>
    ELSE IF VelInBlock(mods, MatchBraces(mods)) # <<>>
         THEN VelInBlock(mods, MatchBraces(mods))
    ELSE FindVel(Tail(mods))

velOfNoClamp(head, mVel) ==
    IF mVel # <<>> THEN parseInt(mVel)
    ELSE IF Head(head) = "r" THEN DEFAULT_VEL("x")
    ELSE DEFAULT_VEL(Head(head))

\* vel: the marker's default, overridden by {vel=N} clamped to 0..127
velOf(head, mVel) ==
    IF mVel # <<>> THEN Max(0, Min(127, parseInt(mVel)))
    ELSE IF Head(head) = "r" THEN DEFAULT_VEL("x")
    ELSE DEFAULT_VEL(Head(head))

\* prob: 100, overridden by [p=N] clamped to 0..100
probOf(mProb) ==
    IF mProb # <<>> THEN Max(0, Min(100, parseInt(mProb))) ELSE 100

\* micro: 0, overridden by ^N
microOf(mShift) == IF mShift # <<>> THEN parseSigned(mShift) ELSE 0

\* rolls: the count of a roll marker, 0 for the other markers
rollsOf(head) == IF Head(head) = "r" THEN parseInt(Tail(head)) ELSE 0

microPerOfI(i, rolls) == i

\* Math.round((i * 4) / Math.max(1, rolls)): halves round up
microPerOf(i, rolls) ==
    (2 * (i * 4) + Max(1, rolls)) \div (2 * Max(1, rolls))

\* the tokens returned: rolls of them for a roll of 2 or more, else one
hitTokens(inst, vel, prob, micro, rolls) ==
    IF rolls > 1
    THEN [k \in 1..rolls |->
             [inst |-> inst, velocity |-> vel, prob |-> prob,
              microStepsShift |-> micro + microPerOf(k - 1, rolls),
              rolls |-> rolls]]
    ELSE <<[inst |-> inst, velocity |-> vel, prob |-> prob,
            microStepsShift |-> micro, rolls |-> 0]>>

\* the cell split into its head and its modifiers
expandParts(inst, head, mods) ==
    hitTokens(inst, velOf(head, FindVel(mods)), probOf(FindProb(mods)),
              microOf(FindShift(mods)), rollsOf(head))

expandCell(inst, cell) ==
    IF cell = Null \/ MatchHead(cell) = 0 THEN <<>>
    ELSE expandParts(inst, SubSeq(cell, 1, MatchHead(cell)),
                     Slice(cell, MatchHead(cell) + 1))

-----------------------------------------------------------------------------
(* Parser *)

DEFAULT_HEADER ==
    [BPM |-> 92, BARS |-> 1, GRID |-> 16, SWING |-> 50,
     SEED |-> <<>>, humanizeMs |-> <<>>]

\* the properties every object literal inherits from Object.prototype:
\* sections[name] is a (truthy) function for these names even when the
\* parser has created no section of that name
ObjectPrototypeKeys ==
    {"constructor", "toString", "valueOf", "hasOwnProperty",
     "isPrototypeOf", "propertyIsEnumerable", "toLocaleString"}

\* the position of the own property name in sections, 0 when there is none
RECURSIVE OwnIndex(_, _, _)
OwnIndex(sections, name, i) ==
    IF i > Len(sections) THEN 0
    ELSE IF sections[i].name = name THEN i
    ELSE OwnIndex(sections, name, i + 1)

\* sections[name]
sectionsGet(sections, name) ==
    LET i == OwnIndex(sections, name, 1)
    IN  IF i > 0 THEN [kind |-> "own", lines |-> sections[i].lines]
        ELSE IF name \in ObjectPrototypeKeys THEN [kind |-> "inherited"]
        ELSE [kind |-> "undefined"]

\* a property name that is a canonical array index: its number, else -1
ArrayIndex(name) ==
    CASE name = "0" -> 0 [] name = "1" -> 1 [] name = "2" -> 2
      [] name = "3" -> 3 [] OTHER -> 0 - 1

\* the array-index names of sections from position i on, whose number is n
RECURSIVE IndexKeysFrom(_, _)
IndexKeysFrom(sections, n) ==
    IF n > 3 THEN <<>>
    ELSE LET here == SelectSeq(sections, LAMBDA sec : ArrayIndex(sec.name) = n)
         IN  [k \in 1..Len(here) |-> here[k].name]
             \o IndexKeysFrom(sections, n + 1)

\* Object.keys(sections): the array-index names in ascending numeric order,
\* then the other names in the order of their creation
ObjectKeys(sections) ==
    LET rest == SelectSeq(sections, LAMBDA sec : ArrayIndex(sec.name) < 0)
    IN  IndexKeysFrom(sections, 0) \o [k \in 1..Len(rest) |-> rest[k].name]

RECURSIVE Repeat(_, _)
Repeat(name, n) == IF n <= 0 THEN <<>> ELSE <<name>> \o Repeat(name, n - 1)

\* the loop over the parts of an ORDER line.  A part is
\* [name, kind, n]: kind "n" for "name xN", "inf" for "name x∞" and "bad"
\* for a part the regex does not match
RECURSIVE expandOrder(_)
expandOrder(parts) ==
    IF parts = <<>> THEN <<>>
    ELSE LET p == Head(parts)
         IN  (IF p.kind = "bad" THEN <<>>
              ELSE IF p.kind = "inf" THEN <<p.name>>
              ELSE Repeat(p.name, p.n))
             \o expandOrder(Tail(parts))

\* the loop over the parts of a track's @modifiers.  A part is [m, v]:
\* m "grid" for "n/d" and "GRID=n/d" (v the denominator), "len" for "LEN=n"
\* and "junk" for anything else
RECURSIVE parseMods(_, _)
parseMods(parts, mods) ==
    IF parts = <<>> THEN mods
    ELSE LET p == Head(parts)
         IN  parseMods(Tail(parts),
                 IF p.m = "grid" THEN [mods EXCEPT !.grid = <<p.v>>]
                 ELSE IF p.m = "len" THEN [mods EXCEPT !.lenSteps = <<p.v>>]
                 ELSE mods)

toUpperCase(inst) ==
    CASE inst = "q" -> "Q" [] inst = "w" -> "W" [] inst = "e" -> "E"
      [] inst = "r" -> "R" [] inst = "t" -> "T" [] inst = "y" -> "Y"
      [] OTHER -> inst

\* one iteration of the loop over the lines.
\* st = [header, sections, currentSection, order, threw]
parseLine(st, line) ==
    CASE line.k = "blank" -> st
      [] line.k = "humanize" ->
            [st EXCEPT !.header.humanizeMs = <<line.n>>]
      [] line.k = "order" ->
            [st EXCEPT !.order = <<expandOrder(line.parts)>>]
      [] line.k = "section" ->
            IF sectionsGet(st.sections, line.name).kind = "undefined"
            THEN [st EXCEPT !.currentSection = line.name,
                            !.sections = Append(@, [name |-> line.name,
                                                    lines |-> <<>>])]
            ELSE [st EXCEPT !.currentSection = line.name]
      [] line.k = "kv" ->
            (CASE line.key = "BPM"   -> [st EXCEPT !.header.BPM = line.val]
               [] line.key = "BARS"  -> [st EXCEPT !.header.BARS = line.val]
               [] line.key = "GRID"  -> [st EXCEPT !.header.GRID = line.val]
               [] line.key = "SWING" -> [st EXCEPT !.header.SWING = line.val]
               [] line.key = "SEED"  ->
                     [st EXCEPT !.header.SEED = <<line.val>>])
      [] line.k = "track" ->
            LET i == OwnIndex(st.sections, st.currentSection, 1)
                l == [inst    |-> toUpperCase(line.inst),
                      mods    |-> parseMods(line.mods,
                                     [grid |-> <<>>, lenSteps |-> <<>>]),
                      pattern |-> RemoveChars(line.pattern, {" "})]
            IN  IF i = 0
                \* sections[currentSection] is inherited and has no lines:
                \* .lines.push throws a TypeError
                THEN [st EXCEPT !.threw = TRUE]
                ELSE [st EXCEPT !.sections[i].lines = Append(@, l)]
      [] OTHER -> st

RECURSIVE parseLines(_, _)
parseLines(st, lines) ==
    IF lines = <<>> \/ st.threw THEN st
    ELSE parseLines(parseLine(st, Head(lines)), Tail(lines))

parse(src) ==
    LET st == parseLines([header         |-> DEFAULT_HEADER,
                          sections       |-> <<[name  |-> "Default",
                                                lines |-> <<>>]>>,
                          currentSection |-> "Default",
                          order          |-> <<>>,
                          threw          |-> FALSE], src)
    IN  [header |-> st.header, sections |-> st.sections,
         order |-> st.order, threw |-> st.threw]

-----------------------------------------------------------------------------
(* Compiler: the per-line quantities of compile *)

\* line.mods.grid || this.header.GRID
lineGrid(header, line) ==
    IF line.mods.grid # <<>> THEN line.mods.grid[1] ELSE header.GRID

\* line.mods.lenSteps || this.stepsPerBar(grid)
lineStepsPerBar(line, grid) ==
    IF line.mods.lenSteps # <<>> /\ line.mods.lenSteps[1] # 0
    THEN line.mods.lenSteps[1]
    ELSE stepsPerBar(grid)

\* the constants of one iteration of the loop over the lines.  The step
\* of a grid with denominator 0 is Infinity: no score drawn places a hit
\* with it
lineLocals(header, line, grid) ==
    [inst        |-> line.inst,
     stepsPerBar |-> lineStepsPerBar(line, grid),
     stepMs      |-> IF grid = 0 THEN "Infinity" ELSE stepMs(grid, header.BPM),
     cells       |-> tokenizePattern(line.pattern)]

\* Math.ceil(totalSteps / stepsPerBar) is Infinity when stepsPerBar is 0 and
\* the line has cells: the bar loop then has no bound
barsUnbounded(L) == L.stepsPerBar = 0 /\ Len(L.cells) > 0

\* Math.ceil(totalSteps / stepsPerBar) || 1, when it is finite
barsInLine(L) ==
    IF L.stepsPerBar = 0 \/ Len(L.cells) = 0 THEN 1
    ELSE (Len(L.cells) + L.stepsPerBar - 1) \div L.stepsPerBar

\* Math.max(barsInLine, this.header.BARS), when it is finite
barsToUse(header, L) == Max(barsInLine(L), header.BARS)

secLenMsOneBar(header) == barMs(header.GRID, header.BPM)

\* this.header.BARS * this.barMs(this.header.GRID, this.header.BPM)
secLenMs(header) == header.BARS * barMs(header.GRID, header.BPM)

-----------------------------------------------------------------------------
(* Compiler: one hit *)

\* rng() * 100 > prob, for the drawn numerator v = <<hi, lo>>:
\* v * 100 > prob * 2^32
gateFails(v, prob) ==
    (v[1] * 100 + ((v[2] * 100) \div 65536) > prob * 65536)
    \/ (/\ v[1] * 100 + ((v[2] * 100) \div 65536) = prob * 65536
        /\ (v[2] * 100) % 65536 > 0)

\* (rng() * 2 - 1) * humanizeMs as a time: (v * H - H * 2^31) / 2^31 ms
humanOf(v, humanizeMs) ==
    TNorm(((v[1] * humanizeMs) \div 512) - TicksPerMs * humanizeMs,
          ((v[1] * humanizeMs) % 512) * 65536 + v[2] * humanizeMs)

\* what the history keeps of one hit of the bar
hitEntry(c, h, placed, human, when) ==
    [bar |-> c.bar, s |-> c.s, hit |-> h, placed |-> placed,
     human |-> human, when |-> when, stepMs |-> c.L.stepMs,
     stepsPerBar |-> c.L.stepsPerBar, tCursor |-> c.tCursor]

\* tCursor + bar * stepsPerBar * stepMs + s * stepMs + swingOffset + micro
\* + human, with micro = h.microStepsShift * (stepMs / 4)
whenOf(c, h, human) ==
    TAdd(Ticks(c.tCursor
               + c.bar * c.L.stepsPerBar * c.L.stepMs
               + c.s * c.L.stepMs
               + swingOffsetMs(c.s, c.L.stepMs, c.header.SWING)
               + h.microStepsShift * (c.L.stepMs \div 4)),
         human)

\* trackEvents.push({ t: when, inst: h.inst, velocity: h.velocity })
pushHit(c, h, g, human, when, acc) ==
    [g   |-> g,
     out |-> Append(acc.out, [t |-> when, inst |-> h.inst,
                              velocity |-> h.velocity]),
     log |-> Append(acc.log, hitEntry(c, h, TRUE, human, when))]

timeHit(c, h, g, human, acc) ==
    pushHit(c, h, g, human, whenOf(c, h, human), acc)

\* the jitter drawn: d = [g, v]
humanDrawn(c, h, d, acc) ==
    timeHit(c, h, d.g, humanOf(d.v, c.header.humanizeMs[1]), acc)

\* const human = this.header.humanizeMs ? (this.rng() * 2 - 1) * ... : 0
humanizeHit(c, h, g, acc) ==
    IF c.header.humanizeMs # <<>> /\ c.header.humanizeMs[1] # 0
    THEN humanDrawn(c, h, rngDraw(g), acc)
    ELSE timeHit(c, h, g, Ticks(0), acc)

\* the gate drawn: d = [g, v]; a hit that fails it is skipped (continue)
gateDrawn(c, h, d, acc) ==
    IF gateFails(d.v, h.prob)
    THEN [g   |-> d.g,
          out |-> acc.out,
          log |-> Append(acc.log,
                         hitEntry(c, h, FALSE, Ticks(0), Ticks(0)))]
    ELSE humanizeHit(c, h, d.g, acc)

\* the body of the loop over the hits of one cell, for the hit h.
\* c = [header, L, bar, s, tCursor]; acc = [g, out, log]
placeHit(c, h, acc) ==
    IF h.prob < 100 THEN gateDrawn(c, h, rngDraw(acc.g), acc)
    ELSE humanizeHit(c, h, acc.g, acc)

RECURSIVE placeHits(_, _, _)
placeHits(c, hits, acc) ==
    IF hits = <<>> THEN acc
    ELSE placeHits(c, Tail(hits), placeHit(c, Head(hits), acc))

\* the loop over the steps s of one bar, from step s on
RECURSIVE renderSteps(_, _, _)
renderSteps(c, s, acc) ==
    IF s >= c.L.stepsPerBar
       \/ c.bar * c.L.stepsPerBar + s >= Len(c.L.cells)
    THEN acc
    ELSE IF c.L.cells[c.bar * c.L.stepsPerBar + s + 1] = Null
    THEN renderSteps(c, s + 1, acc)
    ELSE renderSteps(c, s + 1,
             placeHits([c EXCEPT !.s = s],
                       expandCell(c.L.inst,
                                  c.L.cells[c.bar * c.L.stepsPerBar + s + 1]),
                       acc))

-----------------------------------------------------------------------------
(* Compiler: sorting and normalisation *)

\* trackEvents.sort((a, b) => a.t - b.t): the sort is stable
RECURSIVE insertEvent(_, _)
insertEvent(sorted, e) ==
    IF sorted = <<>> THEN <<e>>
    ELSE IF TLess(e.t, sorted[Len(sorted)].t)
         THEN Append(insertEvent(SubSeq(sorted, 1, Len(sorted) - 1), e),
                     sorted[Len(sorted)])
         ELSE Append(sorted, e)

RECURSIVE sortEventsFrom(_, _)
sortEventsFrom(evs, sorted) ==
    IF evs = <<>> THEN sorted
    ELSE sortEventsFrom(Tail(evs), insertEvent(sorted, Head(evs)))

sortEvents(evs) == sortEventsFrom(evs, <<>>)

RECURSIVE minTime(_, _)
minTime(evs, m) ==
    IF evs = <<>> THEN m
    ELSE minTime(Tail(evs), IF TLess(Head(evs).t, m) THEN Head(evs).t ELSE m)

\* events.length ? Math.min(...events.map((e) => e.t)) : 0
minT(evs) == IF evs = <<>> THEN Ticks(0) ELSE minTime(Tail(evs), Head(evs).t)

shiftEventsPositive(evs, m) ==
    IF TLess(Ticks(0), m)
    THEN [k \in 1..Len(evs) |-> [evs[k] EXCEPT !.t = TSub(@, m)]]
    ELSE evs

\* if (minT !== 0) events.forEach((e) => (e.t -= minT))
shiftEvents(evs, m) ==
    IF m # Ticks(0)
    THEN [k \in 1..Len(evs) |-> [evs[k] EXCEPT !.t = TSub(@, m)]]
    ELSE evs

normalize(evs) == shiftEvents(evs, minT(evs))

-----------------------------------------------------------------------------
(* The score texts drawn in Init *)

DigitChar(d) ==
    CASE d = 0 -> "0" [] d = 1 -> "1" [] d = 2 -> "2" [] d = 3 -> "3"
      [] d = 4 -> "4" [] d = 5 -> "5" [] d = 6 -> "6" [] d = 7 -> "7"
      [] d = 8 -> "8" [] d = 9 -> "9"

\* the decimal digits of n >= 0
RECURSIVE ToChars(_)
ToChars(n) ==
    IF n < 10 THEN <<DigitChar(n)>>
    ELSE ToChars(n \div 10) \o <<DigitChar(n % 10)>>

\* "key: val"
KV(key, val) == [k |-> "kv", key |-> key, val |-> val]

\* "%humanize=±Nms"
Humanize(n) == [k |-> "humanize", n |-> n]

\* "[name]"
Section(name) == [k |-> "section", name |-> name]

\* "ORDER: part, part, ..."
Order(parts) == [k |-> "order", parts |-> parts]

\* "name xN", "name x∞" and a part with no " xN" suffix
Part(name, n) == [name |-> name, kind |-> "n", n |-> n]

PartInf(name) == [name |-> name, kind |-> "inf", n |-> 0]

PartBad(name) == [name |-> name, kind |-> "bad", n |-> 0]

\* "inst@mods: pattern"
Track(inst, mods, pattern) ==
    [k |-> "track", inst |-> inst, mods |-> mods, pattern |-> pattern]

GridMod(denom) == [m |-> "grid", v |-> denom]

LenMod(n) == [m |-> "len", v |-> n]

JunkMod == [m |-> "junk", v |-> 0]

\* a line no regex of the parser matches, and a blank or comment line
JunkLine == [k |-> "junk"]

BlankLine == [k |-> "blank"]

\* pattern cells: every head with every choice of ^shift, {vel=N}, [p=N]
CellHeads ==
    {<<"x">>, <<"X">>, <<"g">>} \cup {<<"r">> \o ToChars(n) : n \in 0..MaxRoll}

ShiftMods ==
    {<<>>, <<"^", "2">>, <<"^", "-", "1">>, <<"^", "+", "3">>}

VelMods ==
    {<<>>, <<"{", "a", "c", "c", "}">>}
    \cup {<<"{", "v", "e", "l", "=">> \o ToChars(n) \o <<"}">> :
             n \in {0, 127, 128, 999}}

ProbMods ==
    {<<>>} \cup {<<"[", "p", "=">> \o ToChars(n) \o <<"]">> :
                    n \in {0, 50, 100, 101, 999}}

CellTexts ==
    {<<KV("BPM", 120), KV("SEED", 1), Track("Q", <<>>, h \o sh \o ve \o pr)>> :
        h \in CellHeads, sh \in ShiftMods, ve \in VelMods, pr \in ProbMods}

\* sections and ORDER lines: two named sections after Default
StructTracksA ==
    {Track("Q", <<LenMod(2)>>, <<"x", ".">>),
     Track("W", <<LenMod(2)>>,
           <<"x", "|", ".", "x", "|", ".", ".", "|", ".", ".", "|", ".", "x">>),
     Track("E", <<GridMod(32), LenMod(4)>>, <<".", "x", ".", ".", "x">>)}

StructTracksB ==
    {Track("R", <<>>, <<"x", "^", "-", "1">>),
     Track("T", <<LenMod(2)>>, <<".", ".">>),
     Track("Y", <<LenMod(3)>>, <<".", "X", "^", "6">>)}

StructNames == {<<"A", "B">>, <<"2", "1">>}

OrderLines(n) ==
    {<<>>,
     <<Order(<<Part(n[1], 2), Part(n[2], 1)>>)>>,
     <<Order(<<Part(n[2], 1), Part(n[1], 1)>>)>>,
     <<Order(<<Part(n[1], 0)>>)>>,
     <<Order(<<PartInf(n[1])>>)>>,
     <<Order(<<Part(n[1], 1), Part("C", 1), Part(n[2], 1)>>)>>,
     <<Order(<<PartBad(n[1]), Part(n[2], 1)>>)>>,
     <<Order(<<>>)>>}

StructTextsOf(n) ==
    {<<KV("BPM", 120), KV("GRID", 8), KV("BARS", b)>> \o d \o o
        \o <<Section(n[1]), ta, Section(n[2]), tb>> :
        b \in {1, 2},
        d \in {<<>>, <<Track("t", <<>>, <<"g">>)>>},
        o \in OrderLines(n),
        ta \in StructTracksA,
        tb \in StructTracksB}

StructTexts == UNION {StructTextsOf(n) : n \in StructNames}

\* tempo, grid, swing, seed and humanize
TimingPatterns ==
    {<<".", "x", "^", "-", "2", "x", "x">>,
     <<"X", "r", "4", "[", "p", "=", "5", "0", "]", ".", "g", "[", "p", "=",
       "3", "0", "]">>}

TimingTexts ==
    {<<KV("BPM", bpm), KV("GRID", g), KV("SWING", sw)>> \o sd \o hu
        \o <<Track("Q", <<>>, pat)>> :
        bpm \in {120, 240},
        g \in {8, 16, 32},
        sw \in {25, 50, 75, 100},
        sd \in {<<>>, <<KV("SEED", 1)>>, <<KV("SEED", 7)>>},
        hu \in {<<>>, <<Humanize(0)>>, <<Humanize(3)>>},
        pat \in TimingPatterns}

\* grids and lengths outside the documented ones, names that sections
\* inherits, lines the parser drops
EdgeTexts ==
    {<<KV("BPM", 120), Track("Q", <<GridMod(0)>>, <<"x">>)>>,
     <<KV("BPM", 120), Track("Q", <<GridMod(0)>>, <<"|", "?">>)>>,
     <<KV("BPM", 120),
       Track("Q", <<GridMod(4)>>, <<"x", "x", "x", "x", "x">>)>>,
     <<KV("BPM", 120), Track("Q", <<LenMod(0)>>, <<"x", " ", "x">>)>>,
     <<KV("BPM", 120), Track("Q", <<JunkMod, LenMod(100)>>, <<"x", "x">>)>>,
     <<KV("BPM", 120), Order(<<Part("constructor", 1)>>),
       Track("Q", <<>>, <<"x">>)>>,
     <<KV("BPM", 120), Section("constructor"), Track("Q", <<>>, <<"x">>)>>,
     <<KV("BPM", 120), Section("constructor")>>,
     <<KV("BPM", 120), BlankLine, Track("Q", <<>>, <<"x">>), JunkLine,
       Track("w", <<>>, <<"r", "x", "-", "q", "g">>)>>,
     <<>>}

Texts == CellTexts \cup StructTexts \cup TimingTexts \cup EdgeTexts

\* states of the Math.random stream at the start
MathRandomStates == {<<0, 0>>, <<4660, 22136>>}

Range(f) == {f[i] : i \in DOMAIN f}

\* the constants of a line, before the first line is entered
NoLocals == [inst |-> "", stepsPerBar |-> 0, stepMs |-> 0, cells |-> <<>>]

-----------------------------------------------------------------------------
(* The state machine *)

Init ==
    /\ text \in Texts
    /\ mathRandom \in
          IF text \in TimingTexts /\ KV("SEED", 1) \notin Range(text)
                                  /\ KV("SEED", 7) \notin Range(text)
          THEN MathRandomStates ELSE {<<0, 0>>}
    /\ pc = "start"
    /\ parsed = [header |-> DEFAULT_HEADER, sections |-> <<>>, order |-> <<>>]
    /\ rng = [seeded |-> FALSE, a |-> <<0, 0>>, id |-> 0]
    /\ seqSections = <<>>
    /\ secIdx = 0
    /\ lineIdx = 0
    /\ locals = NoLocals
    /\ bar = 0
    /\ tCursor = 0
    /\ trackEvents = <<>>
    /\ events = <<>>
    /\ barHits = <<>>
    /\ results = <<>>

\* const parsed = parser.parse(txt)
Parse ==
    /\ pc = "start"
    /\ \E p \in {parse(text)} :
          IF p.threw
          THEN pc' = "threw" /\ UNCHANGED parsed
          ELSE /\ pc' = "parsed"
               /\ parsed' = [header |-> p.header, sections |-> p.sections,
                             order |-> p.order]
    /\ UNCHANGED <<text, rng, mathRandom, seqSections, secIdx, lineIdx,
                   locals, bar, tCursor, trackEvents, events, barHits,
                   results>>

\* new QDSCompiler(header): for the first compile, or for one more by a
\* caller that builds a compiler per compile (compileFrom)
Construct ==
    /\ pc = "parsed" \/ (pc = "done" /\ Len(results) < MaxCalls)
    /\ rng' = [seeded |-> parsed.header.SEED # <<>>,
               a      |-> IF parsed.header.SEED # <<>>
                          THEN ToUint32(parsed.header.SEED[1]) ELSE <<0, 0>>,
               id     |-> rng.id + 1]
    /\ pc' = "ready"
    /\ UNCHANGED <<text, parsed, mathRandom, seqSections, secIdx, lineIdx,
                   locals, bar, tCursor, trackEvents, events, barHits,
                   results>>

\* order && order.length ? order : Object.keys(sections)
seqSectionsOf(sections, order) ==
    IF order # <<>> /\ Len(order[1]) > 0 THEN order[1]
    ELSE ObjectKeys(sections)

\* compiler.compile(parsed.sections, parsed.order): on a new compiler, or
\* once more on the compiler that has already compiled
CompileStart ==
    /\ pc = "ready" \/ (pc = "done" /\ Len(results) < MaxCalls)
    /\ seqSections' = seqSectionsOf(parsed.sections, parsed.order)
    /\ events' = <<>>
    /\ tCursor' = 0
    /\ secIdx' = 1
    /\ pc' = "section"
    /\ UNCHANGED <<text, parsed, rng, mathRandom, lineIdx, locals, bar,
                   trackEvents, barHits, results>>

sec == sectionsGet(parsed.sections, seqSections[secIdx])

line == sec.lines[lineIdx]

\* if (!sec) continue
SkipSection ==
    /\ pc = "section"
    /\ secIdx <= Len(seqSections)
    /\ sec.kind = "undefined"
    /\ secIdx' = secIdx + 1
    /\ UNCHANGED <<text, pc, parsed, rng, mathRandom, seqSections, lineIdx,
                   locals, bar, tCursor, trackEvents, events, barHits,
                   results>>

\* for (const line of sec.lines), sec an inherited property without lines:
\* a TypeError
ThrowNotIterable ==
    /\ pc = "section"
    /\ secIdx <= Len(seqSections)
    /\ sec.kind = "inherited"
    /\ pc' = "threw"
    /\ UNCHANGED <<text, parsed, rng, mathRandom, seqSections, secIdx,
                   lineIdx, locals, bar, tCursor, trackEvents, events,
                   barHits, results>>

\* const trackEvents = []
EnterSection ==
    /\ pc = "section"
    /\ secIdx <= Len(seqSections)
    /\ sec.kind = "own"
    /\ trackEvents' = <<>>
    /\ lineIdx' = 1
    /\ pc' = "line"
    /\ UNCHANGED <<text, parsed, rng, mathRandom, seqSections, secIdx,
                   locals, bar, tCursor, events, barHits, results>>

\* the head of the loop over sec.lines, up to the bar loop: grid,
\* stepsPerBar, stepMs and cells of the line
StartLine ==
    /\ pc = "line"
    /\ lineIdx <= Len(sec.lines)
    /\ locals' = lineLocals(parsed.header, line,
                            lineGrid(parsed.header, line))
    /\ bar' = 0
    /\ barHits' = <<>>
    /\ pc' = "bar"
    /\ UNCHANGED <<text, parsed, rng, mathRandom, seqSections, secIdx,
                   lineIdx, tCursor, trackEvents, events, results>>

\* one iteration of the bar loop: the whole loop over the steps of the bar
RenderBar ==
    /\ pc = "bar"
    /\ barsUnbounded(locals) \/ bar < barsToUse(parsed.header, locals)
    /\ \E acc \in {renderSteps(
                      [header |-> parsed.header, L |-> locals, bar |-> bar,
                       s |-> 0, tCursor |-> tCursor],
                      0,
                      [g   |-> [seeded |-> rng.seeded, a |-> rng.a,
                                global |-> mathRandom],
                       out |-> trackEvents,
                       log |-> <<>>])} :
          /\ trackEvents' = acc.out
          /\ barHits' = acc.log
          /\ rng' = [rng EXCEPT !.a = acc.g.a]
          /\ mathRandom' = acc.g.global
    \* the counter of a loop without end is followed up to BarCap only
    /\ bar' = IF barsUnbounded(locals) /\ bar >= BarCap
              THEN bar ELSE bar + 1
    /\ UNCHANGED <<text, pc, parsed, seqSections, secIdx, lineIdx, locals,
                   tCursor, events, results>>

\* bar < barsToUse fails
EndLine ==
    /\ pc = "bar"
    /\ ~barsUnbounded(locals)
    /\ bar >= barsToUse(parsed.header, locals)
    /\ lineIdx' = lineIdx + 1
    /\ pc' = "line"
    /\ UNCHANGED <<text, parsed, rng, mathRandom, seqSections, secIdx,
                   locals, bar, tCursor, trackEvents, events, barHits,
                   results>>

\* after the loop over the lines: sort, append, advance the cursor
EndSection ==
    /\ pc = "line"
    /\ lineIdx > Len(sec.lines)
    /\ trackEvents' = sortEvents(trackEvents)
    /\ events' = events \o trackEvents'
    /\ tCursor' = tCursor + secLenMs(parsed.header)
    /\ secIdx' = secIdx + 1
    /\ pc' = "section"
    /\ UNCHANGED <<text, parsed, rng, mathRandom, seqSections, lineIdx,
                   locals, bar, barHits, results>>

\* after the loop over the sections: normalise and return
Return ==
    /\ pc = "section"
    /\ secIdx > Len(seqSections)
    /\ events' = normalize(events)
    /\ results' = Append(results, [events |-> events',
                                   minT |-> minT(events),
                                   instance |-> rng.id])
    /\ pc' = "done"
    /\ UNCHANGED <<text, parsed, rng, mathRandom, seqSections, secIdx,
                   lineIdx, locals, bar, tCursor, trackEvents, barHits>>

Next ==
    \/ Parse
    \/ Construct
    \/ CompileStart
    \/ SkipSection
    \/ ThrowNotIterable
    \/ EnterSection
    \/ StartLine
    \/ RenderBar
    \/ EndLine
    \/ EndSection
    \/ Return

Spec == Init /\ [][Next]_vars

-----------------------------------------------------------------------------
(* Properties *)

\* what the calls made so far returned
Returned == {results[r] : r \in 1..Len(results)}

IsSorted(evs) ==
    \A k \in 1..(Len(evs) - 1) : TLeq(evs[k].t, evs[k + 1].t)

\* C1: with SEED set, every compile call of one score returns the same
\* event list, the second call on the same compiler included.
C1_EveryCallReturnsTheSameList ==
    parsed.header.SEED # <<>>
        => \A a \in Returned, b \in Returned : a.events = b.events

\* C2: the whole list a compile call returns is sorted by time: each event
\* has a t at most that of the event after it.
C2_ReturnedListIsSorted ==
    \A r \in Returned : IsSorted(r.events)

\* C3: a non-empty list returned by compile has minimum t exactly 0: some
\* event is at 0 and none is before 0.
C3_MinimumTimeIsZero ==
    \A r \in Returned :
        r.events # <<>>
            => /\ \E k \in 1..Len(r.events) : r.events[k].t = Ticks(0)
               /\ \A k \in 1..Len(r.events) : TLeq(Ticks(0), r.events[k].t)

\* a call returned a list of several events that had its earliest event
\* before 0 (a negative micro-shift on the first step) and was shifted
C3_Witness ==
    \E r \in Returned :
        /\ Len(r.events) >= 2
        /\ TLess(r.minT, Ticks(0))
        /\ r.events[1].t = Ticks(0)

\* the entries of seqSections before the one being walked that name a
\* section of the score
ResolvedBefore ==
    {i \in 1..(secIdx - 1) :
        sectionsGet(parsed.sections, seqSections[i]).kind = "own"}

\* C4: while the k-th resolved section occurrence is rendered (k counted
\* from 0 over the entries that name a section), the cursor is
\* k x BARS x barMs(header GRID, header BPM), whatever the grids, lengths
\* and bars of the tracks before; an entry naming no section adds nothing.
C4_CursorAtSectionStart ==
    pc \in {"line", "bar"}
        => tCursor = Cardinality(ResolvedBefore) * parsed.header.BARS
                       * stepsPerBar(parsed.header.GRID)
                       * stepMs(parsed.header.GRID, parsed.header.BPM)

\* the third entry of ORDER starts after one section of two bars and one
\* entry that names no section; the section before held a track on its own
\* grid or a track that overran the section
C4_Witness ==
    /\ pc = "line"
    /\ secIdx = 3
    /\ Cardinality(ResolvedBefore) = 1
    /\ sectionsGet(parsed.sections, seqSections[2]).kind = "undefined"
    /\ parsed.header.BARS = 2
    /\ tCursor = 2 * 8 * 16000
    /\ \E l \in Range(sectionsGet(parsed.sections, seqSections[1]).lines) :
          l.inst \in {"W", "E"}

\* the ORDER lines of the score text
OrderLinesOf(txt) == SelectSeq(txt, LAMBDA l : l.k = "order")

\* the occurrences one ORDER entry stands for: N for "name xN", one for
\* "name x∞"
RECURSIVE WrittenOrder(_)
WrittenOrder(parts) ==
    IF parts = <<>> THEN <<>>
    ELSE (CASE Head(parts).kind = "n" ->
                  [k \in 1..Head(parts).n |-> Head(parts).name]
            [] Head(parts).kind = "inf" -> <<Head(parts).name>>
            [] OTHER -> <<>>)
         \o WrittenOrder(Tail(parts))

\* the sections in the order in which the parser creates them, after
\* Default: at the first header line of each name (a name that sections
\* inherits creates none)
RECURSIVE EncounterOrder(_, _)
EncounterOrder(txt, seen) ==
    IF txt = <<>> THEN seen
    ELSE EncounterOrder(Tail(txt),
             IF /\ Head(txt).k = "section"
                /\ Head(txt).name \notin Range(seen)
                /\ Head(txt).name \notin ObjectPrototypeKeys
             THEN Append(seen, Head(txt).name) ELSE seen)

\* C5: compile walks the ORDER entries expanded by their counts, in the
\* written order and nothing else, when the text has an ORDER line; with
\* no ORDER line it walks every section once in the order the parser
\* first created them, Default first.
C5_SectionsWalked ==
    pc \in {"section", "line", "bar", "done"}
        => seqSections =
              IF OrderLinesOf(text) # <<>>
              THEN WrittenOrder(
                       OrderLinesOf(text)[Len(OrderLinesOf(text))].parts)
              ELSE EncounterOrder(text, <<"Default">>)

\* the cells of the line that hold a marker
HitCells == {i \in 1..Len(locals.cells) : locals.cells[i] # Null}

\* C6: a track line is rendered for max(ceil(cells / stepsPerBar), BARS)
\* bars: no non-empty cell of a long pattern is dropped, and a pattern
\* shorter than BARS x stepsPerBar has its hits in each of the BARS bars.
C6_BarsRendered ==
    (pc = "bar" /\ locals.stepsPerBar > 0 /\ bar >= 1)
        => /\ bar <= Max((Len(locals.cells) + locals.stepsPerBar - 1)
                             \div locals.stepsPerBar,
                         parsed.header.BARS)
           \* the cells written for the bar just rendered
           /\ \A i \in HitCells :
                 (i - 1) \div locals.stepsPerBar = bar - 1
                     => \E k \in 1..Len(barHits) :
                           /\ barHits[k].bar = bar - 1
                           /\ barHits[k].s = (i - 1) % locals.stepsPerBar
           \* a short pattern: the hits of its first bar, in each bar
           /\ (/\ bar <= parsed.header.BARS
               /\ Len(locals.cells)
                     < parsed.header.BARS * locals.stepsPerBar)
                 => \A i \in HitCells :
                       i <= locals.stepsPerBar
                           => \E k \in 1..Len(barHits) :
                                 /\ barHits[k].bar = bar - 1
                                 /\ barHits[k].s = i - 1

\* C7: for every text, parse followed by compile ends by returning a list:
\* neither of them throws, and no loop of compile is without an end.
C7_ReturnsWithoutThrowing ==
    /\ pc # "threw"
    /\ pc = "bar" => ~barsUnbounded(locals)

\* the hits the bar just rendered drew from the cell at step st
HitsAt(st) == SelectSeq(barHits, LAMBDA e : e.s = st)

\* the cell an entry of barHits was expanded from
CellOf(e) == locals.cells[e.bar * e.stepsPerBar + e.s + 1]

\* the count written after the r of a roll cell, 0 for the other markers
RollCount(cell) ==
    IF Head(cell) = "r" THEN parseInt(SubSeq(cell, 2, MatchHead(cell)))
    ELSE 0

\* round(i x 4 / n): the whole number nearest to the quotient, halves up
RoundQuarter(i, n) ==
    CHOOSE q \in 0..4 : 2 * q * n - n <= 8 * i /\ 8 * i < 2 * q * n + n

\* C8: a roll cell rN with N >= 2 expands to N hit tokens of the cell's
\* instrument with one velocity and one probability, the i-th of which
\* (i = 0..N-1) is shifted by the base shift + round(i x 4 / N), so that
\* r4 alone gives the shifts 0, 1, 2, 3; every other cell expands to one
\* hit token.
C8_RollExpansion ==
    pc = "bar"
        => \A k \in 1..Len(barHits) :
              LET n    == RollCount(CellOf(barHits[k]))
                  hits == HitsAt(barHits[k].s)
              IN  /\ Len(hits) = IF n >= 2 THEN n ELSE 1
                  /\ \A i \in 1..Len(hits) :
                        /\ hits[i].hit.inst = locals.inst
                        /\ hits[i].hit.velocity = hits[1].hit.velocity
                        /\ hits[i].hit.prob = hits[1].hit.prob
                        /\ hits[i].hit.microStepsShift
                              = hits[1].hit.microStepsShift
                                  + RoundQuarter(i - 1, Max(1, n))
                  /\ CellOf(barHits[k]) = <<"r", "4">>
                        => [i \in 1..4 |-> hits[i].hit.microStepsShift]
                              = <<0, 1, 2, 3>>

\* a roll of three with a base shift of 2 was expanded: shifts 2, 3, 5
C8_Witness ==
    /\ pc = "bar"
    /\ Len(barHits) = 3
    /\ Len(CellOf(barHits[1])) >= 4
    /\ SubSeq(CellOf(barHits[1]), 1, 4) = <<"r", "3", "^", "2">>
    /\ [i \in 1..3 |-> barHits[i].hit.microStepsShift] = <<2, 3, 5>>

\* C9: every hit token expandCell produces has a velocity in 0..127 and a
\* prob in 0..100, whatever the digits of {vel=N} and [p=N], and every
\* event compile returns has a velocity in 0..127.
C9_VelocityAndProbRanges ==
    /\ \A k \in 1..Len(barHits) :
          /\ barHits[k].hit.velocity \in 0..127
          /\ barHits[k].hit.prob \in 0..100
    /\ \A r \in Returned :
          \A k \in 1..Len(r.events) : r.events[k].velocity \in 0..127

\* a cell with {vel=999} and [p=999] was expanded: velocity 127, prob 100
C9_Witness ==
    /\ pc = "bar"
    /\ Len(barHits) = 1
    /\ CellOf(barHits[1])
          = <<"X", "{", "v", "e", "l", "=", "9", "9", "9", "}",
              "[", "p", "=", "9", "9", "9", "]">>
    /\ barHits[1].hit.velocity = 127
    /\ barHits[1].hit.prob = 100

\* the time of a placed hit without its jitter
Unjittered(e) == TSub(e.when, e.human)

\* the grid position of a hit, micro-shift included, without swing
Unswung(e) ==
    e.tCursor + e.bar * e.stepsPerBar * e.stepMs + e.s * e.stepMs
        + e.hit.microStepsShift * (e.stepMs \div 4)

\* C10: a hit at step s of its bar is displaced by swing by 0 when
\* SWING <= 50, and when SWING > 50 by ((SWING - 50) / 50) x (stepMs x 0.5)
\* for odd s and by 0 for even s; the displacement is never negative.
C10_SwingDisplacement ==
    \A k \in 1..Len(barHits) :
        barHits[k].placed
            => LET e == barHits[k]
               IN  /\ TLeq(Ticks(Unswung(e)), Unjittered(e))
                   /\ Unjittered(e) =
                         Ticks(Unswung(e)
                               + IF parsed.header.SWING > 50 /\ e.s % 2 = 1
                                 THEN ((parsed.header.SWING - 50)
                                          * (e.stepMs \div 2)) \div 50
                                 ELSE 0)

\* SWING 75, GRID 1/16, BPM 120: a hit placed on an odd step 31.25 ms
\* (2000 ticks) after its grid position, and one on an even step on it
C10_Witness ==
    /\ parsed.header.SWING = 75
    /\ parsed.header.GRID = 16
    /\ parsed.header.BPM = 120
    /\ \E k \in 1..Len(barHits) :
          /\ barHits[k].placed
          /\ barHits[k].s % 2 = 1
          /\ Unjittered(barHits[k]) = Ticks(Unswung(barHits[k]) + 2000)
    /\ \E k \in 1..Len(barHits) :
          /\ barHits[k].placed
          /\ barHits[k].s % 2 = 0
          /\ Unjittered(barHits[k]) = Ticks(Unswung(barHits[k]))

\* C11: every sub-hit of a roll cell rN with N >= 2 is placed inside the
\* roll's own step: what it adds to the base shift is 0..3 micro-steps
\* (a step is 4 micro-steps), so with base shift 0 no sub-hit is on or
\* after the grid position of the next step.
C11_RollStaysInsideItsStep ==
    pc = "bar"
        => \A k \in 1..Len(barHits) :
              RollCount(CellOf(barHits[k])) >= 2
                  => /\ barHits[k].hit.microStepsShift
                           - HitsAt(barHits[k].s)[1].hit.microStepsShift
                        \in 0..3
                     /\ (barHits[k].placed
                         /\ HitsAt(barHits[k].s)[1].hit.microStepsShift = 0)
                           => TLess(Unjittered(barHits[k]),
                                    Ticks(barHits[k].tCursor
                                          + barHits[k].bar
                                              * barHits[k].stepsPerBar
                                              * barHits[k].stepMs
                                          + (barHits[k].s + 1)
                                              * barHits[k].stepMs
                                          + IF parsed.header.SWING > 50
                                               /\ barHits[k].s % 2 = 1
                                            THEN ((parsed.header.SWING - 50)
                                                    * (barHits[k].stepMs
                                                         \div 2)) \div 50
                                            ELSE 0))

=============================================================================
